---- MODULE Spec2Model ----
(***************************************************************************)
(* Model of vscode-cairo/src/extension.ts: executable discovery (Scarb in  *)
(* PATH, language server by configuration or development-build walk),      *)
(* activation, language-client bootstrap and the vfs content provider.     *)
(*                                                                         *)
(* Strings are sequences of tokens.  A token is one character, except for  *)
(* the atoms PH ("${workspaceFolder}"), Name ("scarb"), ".x" (an           *)
(* extension such as ".EXE") and the fixed path suffixes of the            *)
(* development walk.  Paths follow the posix flavour of node's path        *)
(* module (delimiter ":", separator "/").                                  *)
(***************************************************************************)
EXTENDS Integers, Sequences, FiniteSets, TLC

VARIABLES
    envPath,        \* process.env.PATH      (Undefined when unset)
    envExt,         \* process.env.PATHEXT   (Undefined when unset)
    fs,             \* the file system: path -> "file" | "dir" | "error"
    config,         \* workspace configuration: [ls, scarb, enable]
    workspace,      \* vscode.workspace.workspaceFolders: [open, folders]
    pc,             \* position of the activation's thread of control
    candidates,     \* findExecutableInPath: candidates
    probes,         \* findExecutableInPath: one fileExists promise per candidate
    scarbFromPath,  \* findScarbExecutable: scarbFromPath
    scarbPath,      \* setupScarb: path
    executable,     \* serverOptions: executable
    walkPath,       \* findDevLanguageServerAt: path
    depth,          \* findDevLanguageServerAt: depth
    fsTrace,        \* every file-system call made so far, in order
    log,            \* outputChannel lines
    warnings,       \* vscode.window.showWarningMessage popups
    client,         \* LanguageClient: "none" | "starting" | "running" | "closed"
    spawned,        \* child_process.spawn calls (the executables), in order
    childAlive,     \* whether the spawned process is running
    located,        \* number of findLanguageServerExecutable calls
    providerRegs,   \* registerTextDocumentContentProvider("vfs", ...) calls
    handlerRegs,    \* client.onNotification('vfs/update', ...) calls
    serverContent,  \* the server's current content of each vfs document
    requests,       \* vfs/provide requests sent so far (in order)
    fetches,        \* provideTextDocumentContent calls: uri, state, result
    notifs,         \* vfs/update notifications sent by the server, not yet delivered
    delivered,      \* vfs/update notifications delivered to the handler
    events          \* onDidChangeEmitter.fire calls, in order

vars == <<envPath, envExt, fs, config, workspace, pc, candidates, probes,
          scarbFromPath, scarbPath, executable, walkPath, depth, fsTrace, log,
          warnings, client, spawned, childAlive, located, providerRegs,
          handlerRegs, serverContent, requests, fetches, notifs, delivered,
          events>>

envVars == <<envPath, envExt, fs, config, workspace>>
pathVars == <<candidates, probes, scarbFromPath>>
walkVars == <<walkPath, depth>>
sessionVars == <<client, spawned, childAlive, located, providerRegs, handlerRegs>>
vfsVars == <<serverContent, requests, fetches, notifs, delivered, events>>

----------------------------------------------------------------------------
(* Bounds of the model *)

MaxPathLen == 3
MaxExtLen == 2
MaxFolderLen == 2
MaxCfgLen == 2
MaxFetches == 2
MaxUpdates == 1
MaxExisting == 2
MaxProbed == 3

----------------------------------------------------------------------------
(* JavaScript values *)

Undefined == <<"\\undefined">>
Pending == <<"\\pending">>

Truthy(v) == v # Undefined /\ v # <<>>

\* a || b
OrElse(a, b) == IF Truthy(a) THEN a ELSE b

Range(s) == {s[i] : i \in 1..Len(s)}

RECURSIVE SeqsUpTo(_, _)
SeqsUpTo(S, n) ==
    IF n = 0 THEN {<<>>}
    ELSE LET shorter == SeqsUpTo(S, n - 1)
         IN  shorter \cup {Append(s, c) : s \in shorter, c \in S}

RECURSIVE Flatten(_)
Flatten(ss) == IF ss = <<>> THEN <<>> ELSE Head(ss) \o Flatten(Tail(ss))

\* String.prototype.split(d) for a one-character separator
RECURSIVE Split(_, _)
Split(s, d) ==
    IF \A i \in 1..Len(s) : s[i] # d THEN <<s>>
    ELSE LET i == CHOOSE k \in 1..Len(s) :
                      s[k] = d /\ \A j \in 1..(k - 1) : s[j] # d
         IN  <<SubSeq(s, 1, i - 1)>> \o Split(SubSeq(s, i + 1, Len(s)), d)

----------------------------------------------------------------------------
(* node's path module, posix flavour *)

Delimiter == ":"
Sep == "/"
Name == "scarb"

RECURSIVE NormalizeString(_, _, _)
NormalizeString(segs, res, allowAboveRoot) ==
    IF segs = <<>> THEN res
    ELSE LET s == Head(segs)
             rest == Tail(segs)
         IN  IF s = <<>> \/ s = <<".">>
             THEN NormalizeString(rest, res, allowAboveRoot)
             ELSE IF s = <<".", ".">>
             THEN IF res # <<>> /\ res[Len(res)] # <<".", ".">>
                  THEN NormalizeString(rest, SubSeq(res, 1, Len(res) - 1), allowAboveRoot)
                  ELSE IF allowAboveRoot
                  THEN NormalizeString(rest, Append(res, s), allowAboveRoot)
                  ELSE NormalizeString(rest, res, allowAboveRoot)
             ELSE NormalizeString(rest, Append(res, s), allowAboveRoot)

RECURSIVE JoinSegments(_)
JoinSegments(segs) ==
    IF segs = <<>> THEN <<>>
    ELSE IF Len(segs) = 1 THEN segs[1]
    ELSE segs[1] \o <<Sep>> \o JoinSegments(Tail(segs))

PathNormalize(p) ==
    IF p = <<>> THEN <<".">>
    ELSE LET isAbsolute == p[1] = Sep
             trailing == p[Len(p)] = Sep
             body == JoinSegments(NormalizeString(Split(p, Sep), <<>>, ~isAbsolute))
         IN  IF body = <<>>
             THEN IF isAbsolute THEN <<Sep>>
                  ELSE IF trailing THEN <<".", Sep>> ELSE <<".">>
             ELSE (IF isAbsolute THEN <<Sep>> ELSE <<>>) \o body
                  \o (IF trailing THEN <<Sep>> ELSE <<>>)

PathJoin(a, b) ==
    IF a = <<>> /\ b = <<>> THEN <<".">>
    ELSE IF a = <<>> THEN PathNormalize(b)
    ELSE IF b = <<>> THEN PathNormalize(a)
    ELSE PathNormalize(a \o <<Sep>> \o b)

----------------------------------------------------------------------------
(* The file system *)

KindOf(p) == IF p \in DOMAIN fs THEN fs[p] ELSE "missing"

\* fs.existsSync: false on any error
ExistsSync(p) == KindOf(p) \in {"file", "dir"}

\* fileExists (lines 27-29): stat resolves -> the path if a regular file,
\* else undefined; stat rejects -> undefined
FileExists(p) == IF KindOf(p) = "file" THEN p ELSE Undefined

----------------------------------------------------------------------------
(* findExecutableInPath (lines 13-37) *)

PathDirs(ePath) ==
    SelectSeq(Split(SelectSeq(OrElse(ePath, <<>>), LAMBDA c : c # "\""), Delimiter),
              LAMBDA d : d # <<>>)

Extensions(eExt) == Split(OrElse(eExt, <<>>), ";")

CandidatesOfDir(d, extensions) ==
    [j \in 1..Len(extensions) |-> PathJoin(d, <<Name>> \o extensions[j])]

\* a variant: the extensions as the outer loop
CandidatesExtMajor(pathDirs, extensions) ==
    Flatten([j \in 1..Len(extensions) |->
                [i \in 1..Len(pathDirs) |->
                    PathJoin(pathDirs[i], <<Name>> \o extensions[j])]])

RECURSIVE Candidates(_, _)
Candidates(pathDirs, extensions) ==
    IF pathDirs = <<>> THEN <<>>
    ELSE CandidatesOfDir(Head(pathDirs), extensions)
         \o Candidates(Tail(pathDirs), extensions)

\* values.find((value) => !!value)
Find(values) ==
    IF \E i \in 1..Len(values) : Truthy(values[i])
    THEN values[CHOOSE i \in 1..Len(values) :
                    Truthy(values[i]) /\ \A j \in 1..(i - 1) : ~Truthy(values[j])]
    ELSE Undefined

\* lines 14-31: build the candidates and start one stat per candidate
FipStart ==
    /\ pc = "fip_start"
    /\ candidates' = Candidates(PathDirs(envPath), Extensions(envExt))
    /\ probes' = [i \in 1..Len(candidates') |-> Pending]
    /\ fsTrace' = fsTrace \o [i \in 1..Len(candidates') |-> <<"stat", candidates'[i]>>]
    /\ pc' = "fip_wait"
    /\ UNCHANGED <<envVars, scarbFromPath, scarbPath, executable, walkVars, log,
                   warnings, sessionVars, vfsVars>>

\* one stat promise settles (any order); fileExists maps it to path | undefined
ProbeSettle ==
    /\ pc = "fip_wait"
    /\ \E i \in 1..Len(probes) :
          /\ probes[i] = Pending
          /\ probes' = [probes EXCEPT ![i] = FileExists(candidates[i])]
    /\ UNCHANGED <<envVars, pc, candidates, scarbFromPath, scarbPath, executable,
                   walkVars, fsTrace, log, warnings, sessionVars, vfsVars>>

\* a variant: the first match to settle wins (no join on all probes)
FipJoinRace ==
    /\ pc = "fip_wait"
    /\ \/ \A i \in 1..Len(probes) : probes[i] # Pending
       \/ \E i \in 1..Len(probes) : probes[i] # Pending /\ Truthy(probes[i])
    /\ scarbFromPath' = Find([i \in 1..Len(probes) |->
                                 IF probes[i] = Pending THEN Undefined ELSE probes[i]])
    /\ pc' = "scarb_config"
    /\ UNCHANGED <<envVars, candidates, probes, scarbPath, executable, walkVars,
                   fsTrace, log, warnings, sessionVars, vfsVars>>

\* lines 31-33: Promise.all resolves once every probe has settled
FipJoin ==
    /\ pc = "fip_wait"
    /\ \A i \in 1..Len(probes) : probes[i] # Pending
    /\ scarbFromPath' = Find(probes)
    /\ pc' = "scarb_config"
    /\ UNCHANGED <<envVars, candidates, probes, scarbPath, executable, walkVars,
                   fsTrace, log, warnings, sessionVars, vfsVars>>

----------------------------------------------------------------------------
(* findExecutableByConfig (lines 39-63) *)

PH == "${workspaceFolder}"
ExtensionPath == <<"/", "e">>

\* The replacement template of String.prototype.replace (GetSubstitution):
\* "$$" -> "$", "$&" -> the match, "$" backquote -> the text before the
\* match, "$" quote -> the text after it; any other "$" is literal (the
\* pattern has no capture groups).
BackQuote == "(backquote)"
Quote == "(quote)"

RECURSIVE GetSubstitution(_, _, _, _)
GetSubstitution(template, matched, before, after) ==
    IF template = <<>> THEN <<>>
    ELSE IF Head(template) = "$" /\ Len(template) >= 2
                /\ template[2] \in {"$", "&", BackQuote, Quote}
    THEN (CASE template[2] = "$" -> <<"$">>
            [] template[2] = "&" -> matched
            [] template[2] = BackQuote -> before
            [] template[2] = Quote -> after)
         \o GetSubstitution(SubSeq(template, 3, Len(template)), matched, before, after)
    ELSE <<Head(template)>> \o GetSubstitution(Tail(template), matched, before, after)

\* configPath.replace(/\${workspaceFolder}/g, rootPath)   (line 55)
Replace(configPath, rootPath) ==
    Flatten([i \in 1..Len(configPath) |->
                IF configPath[i] = PH
                THEN GetSubstitution(rootPath, <<PH>>,
                                     SubSeq(configPath, 1, i - 1),
                                     SubSeq(configPath, i + 1, Len(configPath)))
                ELSE <<configPath[i]>>])

\* lines 45-50; workspaceFolders[0] of an empty array is undefined, and its
\* .uri raises a TypeError
RootPathThrows(ws) == ws.open /\ ws.folders = <<>>

RootPath(ws) ==
    IF ws.open THEN OrElse(ws.folders[1], ExtensionPath) ELSE ExtensionPath

\* a variant: an override that does not exist falls through to the default
FindExecutableByConfigFallthrough(configPath, ws) ==
    IF RootPathThrows(ws)
    THEN [kind |-> "throw", path |-> Undefined, probed |-> <<>>]
    ELSE IF Truthy(configPath)
            /\ ExistsSync(Replace(configPath, RootPath(ws)))
    THEN [kind |-> "return", path |-> Replace(configPath, RootPath(ws)),
          probed |-> <<<<"existsSync", Replace(configPath, RootPath(ws))>>>>]
    ELSE [kind |-> "default", path |-> RootPath(ws),
          probed |-> IF Truthy(configPath)
                     THEN <<<<"existsSync", Replace(configPath, RootPath(ws))>>>>
                     ELSE <<>>]

\* lines 52-62, up to the call of defaultCallback
\*   kind "throw":   the TypeError of line 49
\*   kind "return":  the override decided (lines 53-60); path is the result
\*   kind "default": defaultCallback(path) is to be called (line 62)
FindExecutableByConfig(configPath, ws) ==
    IF RootPathThrows(ws)
    THEN [kind |-> "throw", path |-> Undefined, probed |-> <<>>]
    ELSE IF Truthy(configPath)
    THEN LET serverPath == Replace(configPath, RootPath(ws))
         IN  [kind |-> "return",
              path |-> IF ExistsSync(serverPath) THEN serverPath ELSE Undefined,
              probed |-> <<<<"existsSync", serverPath>>>>]
    ELSE [kind |-> "default", path |-> RootPath(ws), probed |-> <<>>]

----------------------------------------------------------------------------
(* findScarbExecutable (lines 92-99) and setupScarb (lines 158-168) *)

Line(text, arg) == [text |-> text, arg |-> arg]

\* lines 96-97, after the await of line 95: the callback returns scarbFromPath
ScarbByConfig ==
    /\ pc = "scarb_config"
    /\ LET r == FindExecutableByConfig(config.scarb, workspace)
       IN  /\ fsTrace' = fsTrace \o r.probed
           /\ IF r.kind = "throw"
              THEN pc' = "rejected" /\ scarbPath' = scarbPath
              ELSE /\ pc' = "scarb_report"
                   /\ scarbPath' = IF r.kind = "return" THEN r.path ELSE scarbFromPath
    /\ UNCHANGED <<envVars, pathVars, executable, walkVars, log, warnings,
                   sessionVars, vfsVars>>

\* a variant: a missing Scarb aborts the activation
SetupScarbReportFatal ==
    /\ pc = "scarb_report"
    /\ IF ~Truthy(scarbPath)
       THEN /\ warnings' = Append(warnings, "scarb_not_found")
            /\ log' = Append(log, Line("scarb_not_found", <<>>))
            /\ pc' = "rejected"
       ELSE /\ warnings' = warnings
            /\ log' = Append(log, Line("scarb_using", scarbPath))
            /\ pc' = "gate"
    /\ UNCHANGED <<envVars, pathVars, scarbPath, executable, walkVars, fsTrace,
                   sessionVars, vfsVars>>

\* lines 160-167
SetupScarbReport ==
    /\ pc = "scarb_report"
    /\ IF ~Truthy(scarbPath)
       THEN /\ warnings' = Append(warnings, "scarb_not_found")
            /\ log' = Append(log, Line("scarb_not_found", <<>>))
       ELSE /\ warnings' = warnings
            /\ log' = Append(log, Line("scarb_using", scarbPath))
    /\ pc' = "gate"
    /\ UNCHANGED <<envVars, pathVars, scarbPath, executable, walkVars, fsTrace,
                   sessionVars, vfsVars>>

----------------------------------------------------------------------------
(* activate (lines 170-183) and setupLanguageServer (lines 102-156) *)

\* a variant: the gate is ignored
LanguageServerEnabledAlways == TRUE

\* line 177: config.get<boolean>('cairo1.enableLanguageServer')
LanguageServerEnabled == config.enable

\* a variant: the provider and the handler are registered at setup, before
\* the client is ready
ActivateGateRegistersEarly ==
    /\ pc = "gate"
    /\ IF config.enable
       THEN /\ client' = "starting"
            /\ pc' = "server_options"
            /\ log' = log
            /\ providerRegs' = providerRegs + 1
            /\ handlerRegs' = handlerRegs + 1
       ELSE /\ client' = client
            /\ pc' = "done"
            /\ log' = Append(log, Line("ls_not_enabled", <<>>))
            /\ UNCHANGED <<providerRegs, handlerRegs>>
    /\ UNCHANGED <<envVars, pathVars, scarbPath, executable, walkVars, fsTrace,
                   warnings, spawned, childAlive, located, vfsVars>>

\* line 177; with the key true: lines 136-155 (the client is created, the
\* ready callback is attached and client.start() is called)
ActivateGate ==
    /\ pc = "gate"
    /\ IF LanguageServerEnabled
       THEN /\ client' = "starting"
            /\ pc' = "server_options"
            /\ log' = log
       ELSE /\ client' = client
            /\ pc' = "done"
            /\ log' = Append(log, Line("ls_not_enabled", <<>>))
    /\ UNCHANGED <<envVars, pathVars, scarbPath, executable, walkVars, fsTrace,
                   warnings, spawned, childAlive, located, providerRegs,
                   handlerRegs, vfsVars>>

----------------------------------------------------------------------------
(* findLanguageServerExecutable (lines 82-90), findDevLanguageServerAt (67-80) *)

DevDepth == 10
Release == "/target/release/cairo-language-server"
Debug == "/target/debug/cairo-language-server"
Up == "/.."

\* line 107 -> lines 85-88: the override, or the start of the walk
ServerOptions ==
    /\ pc = "server_options"
    /\ located' = located + 1
    /\ LET r == FindExecutableByConfig(config.ls, workspace)
       IN  /\ fsTrace' = fsTrace \o r.probed
           /\ CASE r.kind = "throw" ->
                     \* the executor throws: the promise of line 106 rejects
                     /\ pc' = "done"
                     /\ client' = "closed"
                     /\ UNCHANGED <<executable, walkVars>>
                [] r.kind = "return" ->
                     /\ pc' = "ls_located"
                     /\ executable' = r.path
                     /\ UNCHANGED <<client, walkVars>>
                [] r.kind = "default" ->
                     /\ pc' = "dev_walk"
                     /\ walkPath' = r.path
                     /\ depth' = DevDepth
                     /\ UNCHANGED <<client, executable>>
    /\ UNCHANGED <<envVars, pathVars, scarbPath, log, warnings, spawned,
                   childAlive, providerRegs, handlerRegs, vfsVars>>

\* a variant: the walk stops one level early
DevWalkDepthEarly == depth = 1

\* one call of findDevLanguageServerAt(walkPath, depth)
DevWalkDepth == depth = 0

DevWalkStep ==
    /\ pc = "dev_walk"
    /\ IF DevWalkDepth
       THEN /\ executable' = Undefined
            /\ pc' = "ls_located"
            /\ UNCHANGED <<walkVars, fsTrace>>
       ELSE LET release == walkPath \o <<Release>>
                debug == walkPath \o <<Debug>>
            IN  IF ExistsSync(release)
                THEN /\ executable' = release
                     /\ pc' = "ls_located"
                     /\ fsTrace' = Append(fsTrace, <<"existsSync", release>>)
                     /\ UNCHANGED walkVars
                ELSE IF ExistsSync(debug)
                THEN /\ executable' = debug
                     /\ pc' = "ls_located"
                     /\ fsTrace' = fsTrace \o << <<"existsSync", release>>,
                                                 <<"existsSync", debug>> >>
                     /\ UNCHANGED walkVars
                ELSE /\ walkPath' = walkPath \o <<Up>>
                     /\ depth' = depth - 1
                     /\ fsTrace' = fsTrace \o << <<"existsSync", release>>,
                                                 <<"existsSync", debug>> >>
                     /\ UNCHANGED <<executable, pc>>
    /\ UNCHANGED <<envVars, pathVars, scarbPath, log, warnings, sessionVars,
                   vfsVars>>

\* lines 108-126
LaunchOrAbort ==
    /\ pc = "ls_located"
    /\ IF ~Truthy(executable)
       THEN /\ log' = Append(log, Line("ls_not_found", <<>>))
            /\ UNCHANGED <<spawned, childAlive>>
       ELSE /\ log' = Append(log, Line("ls_running_from", executable))
            /\ spawned' = Append(spawned, executable)
            /\ childAlive' = TRUE
    /\ pc' = "done"
    /\ UNCHANGED <<envVars, pathVars, scarbPath, executable, walkVars, fsTrace,
                   warnings, client, located, providerRegs, handlerRegs, vfsVars>>

----------------------------------------------------------------------------
(* The session: the spawned process and the client's readiness *)

ExitReports == { <<"0", "null">>, <<"null", "SIGTERM">> }

\* lines 117-119: the child writes to its stderr
ChildStderr ==
    /\ pc = "done"
    /\ childAlive
    /\ ~\E i \in 1..Len(log) : log[i].text = "stderr"
    /\ log' = Append(log, Line("stderr", <<"data">>))
    /\ UNCHANGED <<envVars, pc, pathVars, scarbPath, executable, walkVars,
                   fsTrace, warnings, sessionVars, vfsVars>>

\* a variant: the exit handler locates and launches the server again
ChildExitRelaunch ==
    /\ pc = "done"
    /\ childAlive
    /\ childAlive' = FALSE
    /\ \E r \in ExitReports : log' = Append(log, Line("exit", r))
    /\ pc' = IF Len(spawned) < 2 THEN "server_options" ELSE pc
    /\ UNCHANGED <<envVars, pathVars, scarbPath, executable, walkVars,
                   fsTrace, warnings, client, spawned, located, providerRegs,
                   handlerRegs, vfsVars>>

\* lines 120-123: the child exits; the handler only logs
ChildExit ==
    /\ pc = "done"
    /\ childAlive
    /\ childAlive' = FALSE
    /\ \E r \in ExitReports : log' = Append(log, Line("exit", r))
    /\ UNCHANGED <<envVars, pc, pathVars, scarbPath, executable, walkVars,
                   fsTrace, warnings, client, spawned, located, providerRegs,
                   handlerRegs, vfsVars>>

\* the connection to an exited child closes; requests in flight fail
ConnectionClosed ==
    /\ pc = "done"
    /\ client \in {"starting", "running"}
    /\ Len(spawned) > 0
    /\ ~childAlive
    /\ client' = "closed"
    /\ fetches' = [i \in 1..Len(fetches) |->
                      IF fetches[i].state = "waiting"
                      THEN [fetches[i] EXCEPT !.state = "failed"]
                      ELSE fetches[i]]
    /\ UNCHANGED <<envVars, pc, pathVars, scarbPath, executable, walkVars,
                   fsTrace, log, warnings, spawned, childAlive, located,
                   providerRegs, handlerRegs, serverContent, requests, notifs,
                   delivered, events>>

\* lines 139-154: the client signals readiness (once) and the callback of
\* onReady().then registers the notification handler and the provider
OnReady ==
    /\ pc = "done"
    /\ client = "starting"
    /\ childAlive
    /\ client' = "running"
    /\ handlerRegs' = handlerRegs + 1
    /\ providerRegs' = providerRegs + 1
    /\ UNCHANGED <<envVars, pc, pathVars, scarbPath, executable, walkVars,
                   fsTrace, log, warnings, spawned, childAlive, located, vfsVars>>

----------------------------------------------------------------------------
(* The vfs content provider (lines 140-153) *)

Uris == { [scheme |-> "vfs", path |-> <<"/", "a">>],
          [scheme |-> "vfs", path |-> <<"/", "b">>] }

\* vscode.Uri.toString()
UriToString(u) == <<u.scheme, ":">> \o u.path

UriStrings == {UriToString(u) : u \in Uris}

Contents == { <<"v1">>, <<"v2">> }

\* line 145: the parameter of the request sent for a fetch of uri
ProvideParams(uri) == UriToString(uri)

\* line 146: what the fetch returns for a response
ProvideResult(res) == res.content

\* line 150: what the handler fires for a notification
FiredFor(param) == param.uri

\* a variant: a document fetched before is served from a local cache
FetchCached ==
    /\ providerRegs > 0
    /\ Len(fetches) < MaxFetches
    /\ \E uri \in Uris :
          IF \E i \in 1..Len(fetches) :
                fetches[i].uri = uri /\ fetches[i].state = "resolved"
          THEN /\ requests' = requests
               /\ fetches' = Append(fetches,
                      [uri |-> uri, state |-> "resolved",
                       request |-> (CHOOSE i \in 1..Len(fetches) :
                                       fetches[i].uri = uri
                                       /\ fetches[i].state = "resolved"),
                       result |-> fetches[CHOOSE i \in 1..Len(fetches) :
                                             fetches[i].uri = uri
                                             /\ fetches[i].state = "resolved"].result])
          ELSE IF client = "running"
          THEN /\ requests' = Append(requests,
                      [method |-> "vfs/provide", uri |-> ProvideParams(uri),
                       sentWhile |-> client, response |-> Undefined])
               /\ fetches' = Append(fetches,
                      [uri |-> uri, state |-> "waiting", request |-> Len(requests) + 1,
                       result |-> Undefined])
          ELSE /\ requests' = requests
               /\ fetches' = Append(fetches,
                      [uri |-> uri, state |-> "failed", request |-> 0,
                       result |-> Undefined])
    /\ UNCHANGED <<envVars, pc, pathVars, scarbPath, executable, walkVars,
                   fsTrace, log, warnings, sessionVars, serverContent, notifs,
                   delivered, events>>

\* lines 144-145: VS Code asks the registered provider for a document; the
\* request is sent if the client is running, and raises otherwise
Fetch ==
    /\ providerRegs > 0
    /\ Len(fetches) < MaxFetches
    /\ \E uri \in Uris :
          IF client = "running"
          THEN /\ requests' = Append(requests,
                      [method |-> "vfs/provide", uri |-> ProvideParams(uri),
                       sentWhile |-> client, response |-> Undefined])
               /\ fetches' = Append(fetches,
                      [uri |-> uri, state |-> "waiting", request |-> Len(requests) + 1,
                       result |-> Undefined])
          ELSE /\ requests' = requests
               /\ fetches' = Append(fetches,
                      [uri |-> uri, state |-> "failed", request |-> 0,
                       result |-> Undefined])
    /\ UNCHANGED <<envVars, pc, pathVars, scarbPath, executable, walkVars,
                   fsTrace, log, warnings, sessionVars, serverContent, notifs,
                   delivered, events>>

\* the server answers a request with its current content; line 146 returns it
Respond ==
    /\ childAlive
    /\ client = "running"
    /\ \E i \in 1..Len(fetches) :
          /\ fetches[i].state = "waiting"
          /\ LET k == fetches[i].request
                 res == [content |-> serverContent[requests[k].uri]]
             IN  /\ requests' = [requests EXCEPT ![k].response = res.content]
                 /\ fetches' = [fetches EXCEPT ![i].state = "resolved",
                                               ![i].result = ProvideResult(res)]
    /\ UNCHANGED <<envVars, pc, pathVars, scarbPath, executable, walkVars,
                   fsTrace, log, warnings, sessionVars, serverContent, notifs,
                   delivered, events>>

\* the server answers a request with an error: the await of line 145 raises
RespondError ==
    /\ childAlive
    /\ client = "running"
    /\ \E i \in 1..Len(fetches) :
          /\ fetches[i].state = "waiting"
          /\ fetches' = [fetches EXCEPT ![i].state = "failed"]
    /\ UNCHANGED <<envVars, pc, pathVars, scarbPath, executable, walkVars,
                   fsTrace, log, warnings, sessionVars, serverContent, requests,
                   notifs, delivered, events>>

\* the server changes a document and sends vfs/update for it (a server
\* sends no notification before the initialize handshake has completed)
ServerUpdate ==
    /\ childAlive
    /\ client = "running"
    /\ Len(notifs) + Len(delivered) < MaxUpdates
    /\ \E u \in UriStrings, c \in Contents :
          /\ c # serverContent[u]
          /\ serverContent' = [serverContent EXCEPT ![u] = c]
          /\ notifs' = Append(notifs, [uri |-> u])
    /\ UNCHANGED <<envVars, pc, pathVars, scarbPath, executable, walkVars,
                   fsTrace, log, warnings, sessionVars, requests, fetches,
                   delivered, events>>

\* lines 149-152: a vfs/update notification reaches the client; without a
\* registered handler it is dropped
Notify ==
    /\ client = "running"
    /\ notifs # <<>>
    /\ delivered' = Append(delivered, [uri |-> Head(notifs).uri,
                                        handled |-> handlerRegs > 0])
    /\ notifs' = Tail(notifs)
    /\ events' = IF handlerRegs > 0
                 THEN Append(events, FiredFor(Head(notifs)))
                 ELSE events
    /\ UNCHANGED <<envVars, pc, pathVars, scarbPath, executable, walkVars,
                   fsTrace, log, warnings, sessionVars, serverContent, requests,
                   fetches>>

----------------------------------------------------------------------------
(* Initial states *)

Closed == [open |-> FALSE, folders |-> <<>>]
Opened(folders) == [open |-> TRUE, folders |-> folders]

RECURSIVE Ups(_)
Ups(n) == IF n = 0 THEN <<>> ELSE <<Up>> \o Ups(n - 1)

\* the candidates of the development walk, by level (0 is the root path)
ReleaseAt(root, level) == root \o Ups(level) \o <<Release>>
DebugAt(root, level) == root \o Ups(level) \o <<Debug>>

RECURSIVE SubsetsUpTo(_, _)
SubsetsUpTo(S, n) ==
    IF n = 0 THEN {{}}
    ELSE LET smaller == SubsetsUpTo(S, n - 1)
         IN  smaller \cup {T \cup {x} : T \in smaller, x \in S}

\* file systems in which at most n of the given paths exist
FileSystems(paths, kinds, n) ==
    UNION {[S -> kinds] : S \in SubsetsUpTo(paths, n)}

InitFlow(start) ==
    /\ pc = start
    /\ candidates = <<>>
    /\ probes = <<>>
    /\ scarbFromPath = Undefined
    /\ scarbPath = Undefined
    /\ executable = Undefined
    /\ walkPath = <<>>
    /\ depth = 0
    /\ fsTrace = <<>>
    /\ log = <<>>
    /\ warnings = <<>>
    /\ spawned = <<>>
    /\ childAlive = FALSE
    /\ located = 0
    /\ providerRegs = 0
    /\ handlerRegs = 0
    /\ serverContent = [u \in UriStrings |-> <<"v1">>]
    /\ requests = <<>>
    /\ fetches = <<>>
    /\ notifs = <<>>
    /\ delivered = <<>>
    /\ events = <<>>

\* The paths the activation may look at, for the environments below
MainPaths(ws) ==
    LET root == IF RootPathThrows(ws) THEN ExtensionPath ELSE RootPath(ws)
    IN  {<<"a", "/", Name>>, <<"/", "s">>, root \o <<"/", "l">>,
         ReleaseAt(root, 0), DebugAt(root, DevDepth - 1)}

\* The whole program, in a few environments
Init ==
    /\ envPath = <<"a">>
    /\ envExt = Undefined
    /\ config \in [ls : {Undefined, <<PH, "/", "l">>},
                   scarb : {Undefined},
                   enable : BOOLEAN]
    /\ workspace \in {Closed, Opened(<<>>), Opened(<< <<"/", "p">>, <<"/", "q">> >>)}
    /\ fs \in FileSystems(MainPaths(workspace) \ {<<"/", "s">>, DebugAt(RootPath(Closed), DevDepth - 1),
                                                  DebugAt(<<"/", "p">>, DevDepth - 1)},
                          {"file"}, MaxExisting)
    /\ client = "none"
    /\ InitFlow("fip_start")

Next ==
    \/ FipStart
    \/ ProbeSettle
    \/ FipJoin
    \/ ScarbByConfig
    \/ SetupScarbReport
    \/ ActivateGate
    \/ ServerOptions
    \/ DevWalkStep
    \/ LaunchOrAbort
    \/ ChildStderr
    \/ ChildExit
    \/ ConnectionClosed
    \/ OnReady
    \/ Fetch
    \/ Respond
    \/ RespondError
    \/ ServerUpdate
    \/ Notify

Spec == Init /\ [][Next]_vars

\* The activation and the life of the spawned process, in more environments
InitActivate ==
    /\ envPath \in {Undefined, <<"a">>}
    /\ envExt = Undefined
    /\ config \in [ls : {Undefined, <<PH, "/", "l">>},
                   scarb : {Undefined, <<"/", "s">>},
                   enable : BOOLEAN]
    /\ workspace \in {Closed, Opened(<<>>), Opened(<< <<"/", "p">>, <<"/", "q">> >>)}
    /\ fs \in FileSystems(MainPaths(workspace), {"file"}, MaxExisting)
    /\ client = "none"
    /\ InitFlow("fip_start")

NextActivate ==
    \/ FipStart
    \/ ProbeSettle
    \/ FipJoin
    \/ ScarbByConfig
    \/ SetupScarbReport
    \/ ActivateGate
    \/ ServerOptions
    \/ DevWalkStep
    \/ LaunchOrAbort
    \/ ChildStderr
    \/ ChildExit
    \/ ConnectionClosed
    \/ OnReady

SpecActivate == InitActivate /\ [][NextActivate]_vars

\* findExecutableInPath on its own: the environment variables as strings
PathChars == {"a", "/", ".", ":", "\""}
ExtChars == {".x", ";"}

\* every string of the two variables with nothing or everything on disk, and
\* two directories with two extensions over every small file system
InitPath ==
    /\ \/ /\ envPath \in SeqsUpTo(PathChars, MaxPathLen) \cup {Undefined}
          /\ envExt \in SeqsUpTo(ExtChars, MaxExtLen) \cup {Undefined}
          /\ fs \in {<< >>,
                     [p \in Range(Candidates(PathDirs(envPath), Extensions(envExt)))
                         |-> "file"]}
       \/ /\ envPath \in {<<"a">>, <<"a", ":", "b">>}
          /\ envExt \in {Undefined, <<".x", ";">>}
          /\ fs \in FileSystems(
                       Range(Candidates(PathDirs(envPath), Extensions(envExt))),
                       {"file", "dir", "error"}, MaxProbed)
    /\ config = [ls |-> Undefined, scarb |-> Undefined, enable |-> FALSE]
    /\ workspace = Closed
    /\ client = "none"
    /\ InitFlow("fip_start")

NextPath ==
    \/ FipStart
    \/ ProbeSettle
    \/ FipJoin

SpecPath == InitPath /\ [][NextPath]_vars

\* findExecutableByConfig on its own, called for either tool
FolderChars == {"/", "p", "$", "&", Quote, BackQuote}
CfgChars == {PH, "/", "b"}

\* absolute folder paths: "/" followed by up to MaxFolderLen characters
FolderPaths == {<<"/">> \o f : f \in SeqsUpTo(FolderChars, MaxFolderLen)}

\* String replacement that inserts the replacement text as it is
LiteralReplace(s, by) ==
    Flatten([i \in 1..Len(s) |-> IF s[i] = PH THEN by ELSE <<s[i]>>])

InitConfig ==
    /\ envPath = Undefined
    /\ envExt = Undefined
    /\ config \in [ls : SeqsUpTo(CfgChars, MaxCfgLen) \cup {Undefined},
                   scarb : {Undefined},
                   enable : {TRUE}]
    /\ workspace \in {Closed}
          \cup {Opened(<<f>>) : f \in FolderPaths}
          \cup {Opened(<<f, <<"/", "q">> >>) : f \in FolderPaths}
    /\ fs \in FileSystems({Replace(OrElse(config.ls, <<>>), RootPath(workspace)),
                           LiteralReplace(OrElse(config.ls, <<>>), RootPath(workspace))},
                          {"file", "dir"}, MaxExisting)
    /\ client = "starting"
    /\ InitFlow("server_options")

NextConfig ==
    \/ ServerOptions

SpecConfig == InitConfig /\ [][NextConfig]_vars

\* findLanguageServerExecutable on its own: the development walk
InitDev ==
    /\ envPath = Undefined
    /\ envExt = Undefined
    /\ config \in [ls : {Undefined, <<>>}, scarb : {Undefined}, enable : {TRUE}]
    /\ workspace \in {Closed, Opened(<< <<"/", "p">> >>)}
    /\ fs \in FileSystems(
                 {ReleaseAt(RootPath(workspace), l) : l \in 0..(DevDepth + 1)}
                    \cup {DebugAt(RootPath(workspace), l) : l \in 0..(DevDepth + 1)},
                 {"file"}, MaxExisting)
    /\ client = "starting"
    /\ InitFlow("server_options")

NextDev ==
    \/ ServerOptions
    \/ DevWalkStep
    \/ LaunchOrAbort

SpecDev == InitDev /\ [][NextDev]_vars

----------------------------------------------------------------------------
(* Properties *)

Min(S) == CHOOSE x \in S : \A y \in S : x <= y

AfterScarbResolved == pc \notin {"fip_start", "fip_wait", "scarb_config", "rejected"}

OverrideBroken(configPath) ==
    /\ Truthy(configPath)
    /\ ~RootPathThrows(workspace)
    /\ ~ExistsSync(Replace(configPath, RootPath(workspace)))

CallsOf(kind) == SelectSeq(fsTrace, LAMBDA c : c[1] = kind)

OverridePaths ==
    {Replace(OrElse(config.scarb, <<>>), RootPath(workspace)),
     Replace(OrElse(config.ls, <<>>), RootPath(workspace))}

\* C1 as stated: with an override configured whose substituted path does not
\* exist, resolution returns absent and the fallback strategy (the PATH
\* search for Scarb, the development walk for the language server) is never
\* executed.
C1_FallbackNeverExecuted ==
    /\ (AfterScarbResolved /\ OverrideBroken(config.scarb))
          => (scarbPath = Undefined /\ CallsOf("stat") = <<>>)
    /\ (located > 0 /\ OverrideBroken(config.ls))
          => (pc # "dev_walk"
              /\ \A i \in 1..Len(fsTrace) :
                    fsTrace[i][1] = "existsSync" => fsTrace[i][2] \in OverridePaths)

\* C1 amended: with an override configured whose substituted path does not
\* exist, resolution returns absent whatever the fallback finds or would
\* find; for the language server the development walk is not executed; for
\* Scarb the PATH search has already been executed, before the override is
\* looked at, and its result is discarded.
C1_BrokenOverrideIsAbsent ==
    /\ (AfterScarbResolved /\ OverrideBroken(config.scarb))
          => /\ scarbPath = Undefined
             /\ CallsOf("stat") = [i \in 1..Len(candidates) |-> <<"stat", candidates[i]>>]
             /\ \A i, j \in 1..Len(fsTrace) :
                   (fsTrace[i][1] = "stat" /\ fsTrace[j][1] = "existsSync") => i < j
    /\ (located > 0 /\ OverrideBroken(config.ls))
          => /\ pc # "dev_walk"
             /\ executable = Undefined
             /\ spawned = <<>>
             /\ \A i \in 1..Len(fsTrace) :
                   fsTrace[i][1] = "existsSync" => fsTrace[i][2] \in OverridePaths

C1_Witness ==
    /\ pc = "done"
    /\ located = 1
    /\ OverrideBroken(config.scarb)
    /\ OverrideBroken(config.ls)
    /\ Truthy(scarbFromPath)
    /\ ExistsSync(ReleaseAt(RootPath(workspace), 0))

\* C2: the PATH search starts the probes of all candidates before any of
\* them settles and returns, once every probe has settled and whatever the
\* order in which they settle, the first candidate in enumeration order that
\* is a regular file; a probe that fails or finds a directory counts as no
\* match; with no regular file among the candidates the result is absent.
C2_FirstRegularFileInOrder ==
    /\ pc = "fip_wait" =>
          /\ Len(probes) = Len(candidates)
          /\ CallsOf("stat") = [i \in 1..Len(candidates) |-> <<"stat", candidates[i]>>]
    /\ pc = "scarb_config" =>
        /\ \A i \in 1..Len(probes) : probes[i] # Pending
        /\ LET files == {i \in 1..Len(candidates) : KindOf(candidates[i]) = "file"}
           IN  scarbFromPath = IF files = {} THEN Undefined ELSE candidates[Min(files)]

C2_Witness ==
    /\ pc = "scarb_config"
    /\ \E h, i, j \in 1..Len(candidates) :
          /\ h < i /\ i < j
          /\ KindOf(candidates[h]) \in {"dir", "error"}
          /\ scarbFromPath = candidates[i]
          /\ KindOf(candidates[j]) = "file"
          /\ candidates[i] # candidates[j]

\* the fields of s between the occurrences of d, by position
DelimAt(s, d) == {i \in 1..Len(s) : s[i] = d}
NthDelim(s, d, k) ==
    CHOOSE x \in DelimAt(s, d) : Cardinality({y \in DelimAt(s, d) : y < x}) = k - 1
FieldsOf(s, d) ==
    LET n == Cardinality(DelimAt(s, d)) + 1
    IN  [k \in 1..n |->
            SubSeq(s,
                   (IF k = 1 THEN 0 ELSE NthDelim(s, d, k - 1)) + 1,
                   (IF k = n THEN Len(s) + 1 ELSE NthDelim(s, d, k)) - 1)]

SearchDirs ==
    LET raw == IF envPath = Undefined THEN <<>> ELSE envPath
        unquoted == SelectSeq(raw, LAMBDA c : c # "\"")
    IN  SelectSeq(FieldsOf(unquoted, Delimiter), LAMBDA f : Len(f) > 0)

ExtPieces == FieldsOf(IF envExt = Undefined THEN <<>> ELSE envExt, ";")

BareName(d) == PathJoin(d, <<Name>>)

\* C8 as stated: for every directory of the search path the bare name
\* <dir>/<name> is a candidate, whatever the extension variable contains.
C8_BareNameAlwaysCandidate ==
    pc # "fip_start" =>
        \A i \in 1..Len(SearchDirs) : BareName(SearchDirs[i]) \in Range(candidates)

\* C8 amended: the candidate list is, directories outer and extensions
\* inner, the product of the non-empty directories of the search-path
\* variable (quotes removed) with the ';'-separated pieces of the extension
\* variable, each candidate being path.join(dir, name + piece); the bare
\* name of a directory is a candidate exactly when some piece is empty (the
\* variable is missing or empty, or has a leading, trailing or doubled ';');
\* a missing or empty search-path variable yields zero candidates and the
\* search returns absent.
C8_CandidatesAreProduct ==
    pc # "fip_start" =>
        LET dirs == SearchDirs
            pieces == ExtPieces
        IN  /\ Len(candidates) = Len(dirs) * Len(pieces)
            /\ \A i \in 1..Len(dirs), j \in 1..Len(pieces) :
                  candidates[(i - 1) * Len(pieces) + j]
                      = PathJoin(dirs[i], <<Name>> \o pieces[j])
            /\ \A i \in 1..Len(dirs) :
                  BareName(dirs[i]) \in Range(candidates)
                      <=> \E j \in 1..Len(pieces) : pieces[j] = <<>>
            /\ (envPath \in {Undefined, <<>>}) => candidates = <<>>
            /\ (candidates = <<>> /\ pc = "scarb_config") => scarbFromPath = Undefined

C8_Witness ==
    /\ pc = "scarb_config"
    /\ Len(SearchDirs) = 2
    /\ SearchDirs[1] # SearchDirs[2]
    /\ Len(ExtPieces) = 2
    /\ ExtPieces[1] # <<>>
    /\ ExtPieces[2] = <<>>
    /\ candidates[2] = BareName(SearchDirs[1])
    /\ candidates[4] = BareName(SearchDirs[2])

WalkRoot == RootPath(workspace)

\* the levels 0 .. DevDepth - 1 at which a build exists
DevHits == {l \in 0..(DevDepth - 1) :
               ExistsSync(ReleaseAt(WalkRoot, l)) \/ ExistsSync(DebugAt(WalkRoot, l))}

DevExpected ==
    IF DevHits = {} THEN Undefined
    ELSE IF ExistsSync(ReleaseAt(WalkRoot, Min(DevHits)))
    THEN ReleaseAt(WalkRoot, Min(DevHits))
    ELSE DebugAt(WalkRoot, Min(DevHits))

\* the probes of the walk over its first n levels, the last one cut short
\* after the release artifact when that exists
DevProbes(n) ==
    Flatten([k \in 1..n |->
                IF ExistsSync(ReleaseAt(WalkRoot, k - 1))
                THEN << <<"existsSync", ReleaseAt(WalkRoot, k - 1)>> >>
                ELSE << <<"existsSync", ReleaseAt(WalkRoot, k - 1)>>,
                        <<"existsSync", DebugAt(WalkRoot, k - 1)>> >>])

\* C3: with no override configured the development walk starts at the root
\* path, visits at most 10 levels, one directory up per level, tests
\* release before debug at each level, returns the first existing candidate
\* and returns absent when the 10 levels hold none.
C3_DevWalk ==
    (~Truthy(config.ls) /\ located > 0) =>
        /\ pc = "dev_walk" =>
              /\ depth \in 0..DevDepth
              /\ walkPath = WalkRoot \o Ups(DevDepth - depth)
              /\ \A l \in DevHits : l >= DevDepth - depth
              /\ fsTrace = DevProbes(DevDepth - depth)
        /\ pc \in {"ls_located", "done"} =>
              /\ executable = DevExpected
              /\ fsTrace = DevProbes(IF DevHits = {} THEN DevDepth ELSE Min(DevHits) + 1)
              /\ Len(fsTrace) <= 2 * DevDepth

C3_Witness ==
    /\ pc = "done"
    /\ ~Truthy(config.ls)
    /\ executable = Undefined
    /\ depth = 0
    /\ Len(fsTrace) = 2 * DevDepth
    /\ ExistsSync(ReleaseAt(WalkRoot, DevDepth))

FirstFolderOrInstallPath ==
    IF workspace.open /\ Len(workspace.folders) >= 1
    THEN workspace.folders[1]
    ELSE ExtensionPath

\* C7: with an override configured, every placeholder in it is replaced by
\* the first workspace folder's path when a folder is open and by the
\* extension's install path when none is, the rest is unchanged, and the
\* substituted path is returned exactly when it exists.
C7_PlaceholderSubstituted ==
    (pc # "server_options" /\ Truthy(config.ls)) =>
        LET expected == LiteralReplace(config.ls, FirstFolderOrInstallPath)
        IN  /\ pc = "ls_located"
            /\ executable = IF ExistsSync(expected) THEN expected ELSE Undefined

ScarbLines == {"scarb_not_found", "scarb_using"}

\* C4 as stated: with the language server disabled nothing is spawned,
\* created or registered, and the 'not enabled' message is the only line
\* logged.
C4_OnlyNotEnabledLogged ==
    (~config.enable /\ pc = "done") =>
        /\ spawned = <<>>
        /\ client = "none"
        /\ providerRegs = 0
        /\ log = <<Line("ls_not_enabled", <<>>)>>

\* C4 amended: with the language server disabled, in every run no child
\* process is spawned, no client is created or started, no provider or
\* handler is registered and the language server is not even looked for,
\* whatever exists on disk and whatever the overrides are; the log of a
\* completed activation holds Scarb's outcome line followed by the 'not
\* enabled' line, and nothing else.
C4_DisabledStartsNothing ==
    ~config.enable =>
        /\ spawned = <<>>
        /\ ~childAlive
        /\ client = "none"
        /\ located = 0
        /\ providerRegs = 0
        /\ handlerRegs = 0
        /\ pc \notin {"server_options", "dev_walk", "ls_located"}
        /\ \A i \in 1..Len(fsTrace) :
              fsTrace[i][1] = "existsSync"
                 => fsTrace[i][2] = Replace(OrElse(config.scarb, <<>>), RootPath(workspace))
        /\ pc = "done" =>
              /\ Len(log) = 2
              /\ log[1].text \in ScarbLines
              /\ log[2] = Line("ls_not_enabled", <<>>)
        /\ pc # "done" => \A i \in 1..Len(log) : log[i].text \in ScarbLines

C4_Witness ==
    /\ ~config.enable
    /\ pc = "done"
    /\ Truthy(config.ls)
    /\ ~RootPathThrows(workspace)
    /\ ExistsSync(Replace(config.ls, RootPath(workspace)))
    /\ ExistsSync(ReleaseAt(RootPath(workspace), 0))

ExitLines == SelectSeq(log, LAMBDA l : l.text = "exit")

HandledNotifications == SelectSeq(delivered, LAMBDA n : n.handled)

SentFetches == {i \in 1..Len(fetches) : fetches[i].request # 0}

\* C6: every vfs/update notification that reaches the client fires the
\* change event exactly once, for exactly its URI; every fetch
\* that is sent sends its own vfs/provide request carrying the fetched URI,
\* and a fetch that returns returns the content of the response to its own
\* request, never a value kept from an earlier fetch.
C6_FreshFetchExactEvent ==
    /\ HandledNotifications = delivered
    /\ events = [i \in 1..Len(delivered) |-> delivered[i].uri]
    /\ Len(requests) = Cardinality(SentFetches)
    /\ \A i \in SentFetches :
          /\ fetches[i].request \in 1..Len(requests)
          /\ requests[fetches[i].request].method = "vfs/provide"
          /\ requests[fetches[i].request].uri = UriToString(fetches[i].uri)
          /\ \A j \in SentFetches : fetches[i].request = fetches[j].request => i = j
    /\ \A i \in 1..Len(fetches) :
          fetches[i].state = "resolved" =>
             /\ i \in SentFetches
             /\ Truthy(fetches[i].result)
             /\ fetches[i].result = requests[fetches[i].request].response

C6_Witness ==
    /\ Len(fetches) = 2
    /\ fetches[1].uri = fetches[2].uri
    /\ fetches[1].state = "resolved"
    /\ fetches[2].state = "resolved"
    /\ fetches[1].result # fetches[2].result
    /\ events = <<UriToString(fetches[1].uri)>>

\* C9: a search miss is not fatal and leaves the other tool alone.  When
\* Scarb is not found a warning is shown and logged and the language-server
\* setup depends on the enable key only; when the language server is not
\* found a diagnostic is logged, nothing is spawned, the session never
\* becomes ready, and activate completes; activate fails in no run in which
\* a search has missed.
C9_MissIsNotFatal ==
    /\ (AfterScarbResolved /\ pc # "scarb_report" /\ ~Truthy(scarbPath)) =>
          /\ warnings = <<"scarb_not_found">>
          /\ log[1] = Line("scarb_not_found", <<>>)
    /\ (AfterScarbResolved /\ pc # "scarb_report" /\ Truthy(scarbPath)) =>
          /\ warnings = <<>>
          /\ log[1] = Line("scarb_using", scarbPath)
    /\ pc = "done" =>
          /\ (client # "none") <=> config.enable
          /\ (located = 1) <=> config.enable
          /\ (Len(spawned) = 1) <=> (config.enable /\ Truthy(executable))
    /\ (pc = "done" /\ config.enable /\ ~Truthy(executable)) =>
          /\ spawned = <<>>
          /\ ~childAlive
          /\ client = "starting"
          /\ providerRegs = 0
          /\ log[Len(log)] = Line("ls_not_found", <<>>)
    /\ pc = "rejected" =>
          /\ log = <<>>
          /\ warnings = <<>>
          /\ RootPathThrows(workspace)

C9_Witness ==
    /\ pc = "done"
    /\ config.enable
    /\ ~Truthy(scarbPath)
    /\ ~Truthy(executable)
    /\ located = 1
    /\ log = <<Line("scarb_not_found", <<>>), Line("ls_not_found", <<>>)>>

\* C10: the provider and the vfs/update handler are registered at most once,
\* and only once the client has signalled readiness; no vfs/provide request
\* is sent while the client is not ready; a fetch whose request fails, or
\* that is made while the client is not ready, fails with no content.
C10_RegisteredOnReadyOnce ==
    /\ providerRegs <= 1
    /\ handlerRegs <= 1
    /\ providerRegs = handlerRegs
    /\ client \in {"none", "starting"} =>
          (providerRegs = 0 /\ requests = <<>> /\ fetches = <<>>)
    /\ \A k \in 1..Len(requests) : requests[k].sentWhile = "running"
    /\ \A i \in 1..Len(fetches) :
          /\ fetches[i].request = 0 => fetches[i].state = "failed"
          /\ fetches[i].state = "failed" => fetches[i].result = Undefined

C10_Witness ==
    /\ client = "closed"
    /\ providerRegs = 1
    /\ Len(fetches) = 2
    /\ fetches[1].state = "failed"
    /\ fetches[1].request = 1
    /\ fetches[2].state = "failed"
    /\ fetches[2].request = 0

====
